---- MODULE Spec2Model ----
(***************************************************************************)
(* A model of the LRU cache of cache.go: the index (map m), the recency    *)
(* ledger (orderList, a container/list), the three statistics counters and *)
(* the RWMutex, with every public method split into the steps it takes     *)
(* between acquiring and releasing the lock.                                *)
(***************************************************************************)
EXTENDS Integers, Sequences, FiniteSets, TLC

\* ---------------------------------------------------------------- bounds

\* Largest capacity handed to New (0 is always tried: the failing case).
MaxCapacity == 2
\* Get is invoked only while hits and misses are below this, Put only while
\* evictions is: it caps the counters, which the code never does.
MaxStat == 1

Keys == {"a", "b", "c"}
\* The zero value of V (returned by a missing Get) is itself a value that can
\* be stored.
ZeroV == ""
Values == {ZeroV, "1"}
Procs == {"p1", "p2"}

NoKey == "nokey"
NoProc == "noproc"

\* ------------------------------------------------- container/list, the map

\* A list element: id is the *list.Element pointer, key and value the
\* *container it holds.  The nil element has id 0.
NilElem == [id |-> 0, key |-> NoKey, value |-> ZeroV]

ElemIds(l) == {l[i].id : i \in 1..Len(l)}

\* The position of element e in l, 0 when e is not an element of l.
IndexOf(l, e) ==
  IF e \in ElemIds(l) THEN CHOOSE i \in 1..Len(l) : l[i].id = e ELSE 0

Drop(l, i) == [j \in 1..(Len(l) - 1) |-> IF j < i THEN l[j] ELSE l[j + 1]]

\* l.Back(): the last element, nil when the list is empty.
\* (BackFront is Back taking the wrong end.)
BackFront(l) == IF l = <<>> THEN NilElem ELSE l[1]
Back(l) == IF l = <<>> THEN NilElem ELSE l[Len(l)]

\* l.MoveToFront(e): nothing when e is not in l or is already the front.
\* (MoveToFrontNoop is the call left out.)
MoveToFrontNoop(l, e) == l
MoveToFront(l, e) ==
  IF IndexOf(l, e) <= 1 THEN l ELSE <<l[IndexOf(l, e)]>> \o Drop(l, IndexOf(l, e))

\* l.Remove(e): nothing when e is not in l.
\* (RemoveNoop is the call left out.)
RemoveNoop(l, e) == l
Remove(l, e) == IF IndexOf(l, e) = 0 THEN l ELSE Drop(l, IndexOf(l, e))

\* l.PushFront(v) allocates a fresh element; NewElemId is its pointer.
NewElemId(l, mm) ==
  CHOOSE i \in 1..(Len(l) + Cardinality(DOMAIN mm) + 1) :
    /\ i \notin ElemIds(l) \cup {mm[k] : k \in DOMAIN mm}
    /\ \A j \in 1..(i - 1) : j \in ElemIds(l) \cup {mm[k] : k \in DOMAIN mm}
\* (PushBack is PushFront putting the element at the other end.)
PushBack(l, e) == l \o <<e>>
PushFront(l, e) == <<e>> \o l

\* cVal.value = value, through the element pointer e.
\* (SetValueNoop is the store left out.)
SetValueNoop(l, e, v) == l
SetValue(l, e, v) ==
  [i \in 1..Len(l) |-> IF l[i].id = e THEN [l[i] EXCEPT !.value = v] ELSE l[i]]

\* The container an element pointer leads to.
ElemOf(l, e) == IF IndexOf(l, e) = 0 THEN NilElem ELSE l[IndexOf(l, e)]

\* _, ok := x.(*container[K, V]): x is a record of a key and a value, held by
\* an element that exists.
IsContainer(x) ==
  /\ DOMAIN x = {"id", "key", "value"}
  /\ x.id # 0 /\ x.key \in Keys /\ x.value \in Values

\* val, ok := c.m[key]: the element pointer, 0 (nil) when absent.
Lookup(mm, k) == IF k \in DOMAIN mm THEN mm[k] ELSE 0
\* (MapDeleteNoop is the delete left out.)
MapDeleteNoop(mm, k) == mm
MapDelete(mm, k) == [j \in (DOMAIN mm) \ {k} |-> mm[j]]
\* (MapSetNoop is the store left out.)
MapSetNoop(mm, k, e) == mm
MapSet(mm, k, e) == [j \in (DOMAIN mm) \cup {k} |-> IF j = k THEN e ELSE mm[j]]
EmptyMap == [j \in {} |-> 0]

\* uint(len(c.m)) == c.capacity
\* (IsFullOver is the test written with >, IsFullEarly the test off by one.)
IsFullOver(mm, cap) == Cardinality(DOMAIN mm) > cap
IsFullEarly(mm, cap) == Cardinality(DOMAIN mm) + 1 >= cap
IsFull(mm, cap) == Cardinality(DOMAIN mm) = cap

\* c.orderList.Init() and clear(c.m)
\* (ListInitNoop is the call left out.)
ListInitNoop(l) == l
ListInit(l) == <<>>
\* (MapClearNoop is the call left out.)
MapClearNoop(mm) == mm
MapClear(mm) == EmptyMap

\* New(capacity): the error flag and the fields of the cache it returns (no
\* cache, here all fields empty, with the error).
\* (NewUnchecked is New without its capacity test.)
NewUnchecked(cap) ==
  [err |-> FALSE, capacity |-> cap, orderList |-> <<>>, m |-> EmptyMap,
   hits |-> 0, misses |-> 0, evictions |-> 0]
New(cap) ==
  IF cap = 0
  THEN [err |-> TRUE, capacity |-> 0, orderList |-> <<>>, m |-> EmptyMap,
        hits |-> 0, misses |-> 0, evictions |-> 0]
  ELSE [err |-> FALSE, capacity |-> cap, orderList |-> <<>>, m |-> EmptyMap,
        hits |-> 0, misses |-> 0, evictions |-> 0]

\* ------------------------------------------------------------------ state

VARIABLES
  capArg,     \* the argument New was called with
  err,        \* New returned an error (and no cache)
  capacity,   \* c.capacity
  orderList,  \* c.orderList, front (most recently used) first
  m,          \* c.m: key -> element pointer
  hits, misses, evictions,   \* c.stats
  lockW,      \* c.lock: the goroutine holding it exclusively, or NoProc
  lockR,      \* c.lock: the goroutines holding it shared
  panicked,   \* a goroutine panicked: the program is gone
  tozero,     \* inside Clear: the fields of c.stats not yet zeroed
  pc,         \* where each goroutine is
  key, val,   \* the arguments of the call each goroutine is in
  el,         \* its local element pointer (element / val), 0 when nil
  vkey,       \* Put's local val.key of the record it evicts
  ret,        \* the result the call has computed so far
  ref,        \* reference model: resident key -> [value, touch]
  pre,        \* the cache as it was when the exclusive lock was taken
  lastHit,    \* the key of the last completed operation if it was a Get hit
  lastDel,    \* its key if it was a Delete of a resident key
  blank,      \* no Put has begun since New or since the last Clear returned
  count,      \* the Gets that found and did not find their key and the entries
              \* Put removed, counted as calls return, since the last Clear
  seen,       \* inside Stats: the states of c.stats since its call that agree
              \* with what it has loaded (kept under SpecWatch only)
  todo,       \* TestCacheConcurrency: what each of its goroutines does next
  phase       \* "free": any call; "put", "get": TestCacheConcurrency's halves;
              \* "watch": TestStatsConcurrency's workers and Stats callers;
              \* "live": callers that wait for the lock

vars ==
  <<capArg, err, capacity, orderList, m, hits, misses, evictions, lockW, lockR,
    panicked, tozero, pc, key, val, el, vkey, ret, ref, pre, lastHit,
    lastDel, blank, count, seen, todo, phase>>

cacheVars == <<capArg, err, capacity>>
statVars == <<hits, misses, evictions>>
lockVars == <<lockW, lockR>>
histVars == <<ref, pre, lastHit, lastDel, blank, count>>
ghostVars == <<ref, pre, lastHit, lastDel, blank, count, seen>>
driverVars == <<todo, phase>>

NoRet == [value |-> ZeroV, ok |-> FALSE, nums |-> <<>>]
NoPre ==
  [list |-> <<>>, m |-> EmptyMap, hits |-> 0, misses |-> 0, evictions |-> 0,
   held |-> FALSE]
Snapshot ==
  [list |-> orderList, m |-> m, hits |-> hits, misses |-> misses,
   evictions |-> evictions, held |-> TRUE]
StatFields == {"hits", "misses", "evictions"}
NoCount == [hits |-> 0, misses |-> 0, evictions |-> 0]

\* --------------------------------------------- the reference model (ghost)
\* A map from resident key to its value and the time of its last touch.  The
\* times are kept as ranks 1..n (only their order matters), the new touch
\* being later than all of them.

RefEmpty == [k \in {} |-> [value |-> ZeroV, touch |-> 0]]
RefRank(r) ==
  [k \in DOMAIN r |->
     [value |-> r[k].value,
      touch |-> Cardinality({j \in DOMAIN r : r[j].touch <= r[k].touch})]]
RefOldest(r) == CHOOSE k \in DOMAIN r : \A j \in DOMAIN r : r[k].touch <= r[j].touch
RefStamp(r, k, v) ==
  RefRank([j \in (DOMAIN r) \cup {k} |->
             IF j = k THEN [value |-> v, touch |-> Cardinality(DOMAIN r) + 2]
             ELSE r[j]])
RefWithout(r, k) == RefRank([j \in (DOMAIN r) \ {k} |-> r[j]])
RefGet(r, k) == IF k \in DOMAIN r THEN RefStamp(r, k, r[k].value) ELSE r
RefPut(r, k, v, cap) ==
  IF k \in DOMAIN r THEN RefStamp(r, k, v)
  ELSE IF Cardinality(DOMAIN r) >= cap /\ DOMAIN r # {}
       THEN RefStamp(RefWithout(r, RefOldest(r)), k, v)
       ELSE RefStamp(r, k, v)
RefDelete(r, k) == RefWithout(r, k)

\* ------------------------------------- what a Stats call could see (ghost)
\* For a goroutine inside Stats, seen tells which states c.stats has been in
\* since the call began agree with the counters the call has loaded so far:
\* of each such state it holds the counters not yet loaded (left), and
\* whether the state was one that only the middle of Clear's reset shows:
\* neither the counters Clear found nor three zeros (mid).  It is kept while
\* phase = "watch" and stays empty otherwise.

InStats(p) == pc[p] \in {"stats_misses", "stats_evictions", "stats_return"}
\* Counters that are neither those the lock holder found nor all zero.
TornReset(h, mi, e) ==
  <<h, mi, e>> \notin {<<pre.hits, pre.misses, pre.evictions>>, <<0, 0, 0>>}
Sight(left, mid) == [left |-> left, mid |-> mid]
\* Stats begins, loading hits.
Begun(p) ==
  IF phase = "watch"
  THEN [seen EXCEPT ![p] =
          {Sight(<<misses, evictions>>,
                 /\ \E q \in Procs : pc[q] = "clear_stats"
                 /\ TornReset(hits, misses, evictions))}]
  ELSE seen
\* Stats loads the next counter and finds v.
Loaded(p, v) ==
  [seen EXCEPT ![p] =
     {Sight(Tail(s.left), s.mid) :
        s \in {t \in seen[p] : t.left # <<>> /\ Head(t.left) = v}}]
\* c.stats comes to hold <<h, mi, e>>.
Witnessed(h, mi, e, mid) ==
  [q \in Procs |->
     IF /\ phase = "watch" /\ InStats(q)
        /\ SubSeq(<<h, mi, e>>, 1, Len(ret[q].nums)) = ret[q].nums
     THEN seen[q] \cup {Sight(SubSeq(<<h, mi, e>>, Len(ret[q].nums) + 1, 3), mid)}
     ELSE seen[q]]

\* ------------------------------------------------------------------- Init

Init ==
  /\ capArg \in 0..MaxCapacity
  /\ err = New(capArg).err
  /\ capacity = New(capArg).capacity
  /\ orderList = New(capArg).orderList
  /\ m = New(capArg).m
  /\ hits = New(capArg).hits
  /\ misses = New(capArg).misses
  /\ evictions = New(capArg).evictions
  /\ lockW = NoProc /\ lockR = {}
  /\ panicked = FALSE
  /\ tozero = {}
  /\ pc = [p \in Procs |-> "idle"]
  /\ key = [p \in Procs |-> NoKey]
  /\ val = [p \in Procs |-> ZeroV]
  /\ el = [p \in Procs |-> 0]
  /\ vkey = [p \in Procs |-> NoKey]
  /\ ret = [p \in Procs |-> NoRet]
  /\ ref = RefEmpty
  /\ pre = NoPre
  /\ lastHit = NoKey
  /\ lastDel = NoKey
  /\ blank = TRUE
  /\ count = NoCount
  /\ seen = [p \in Procs |-> {}]
  /\ todo = [p \in {} |-> "put"]
  /\ phase = "free"

\* The program runs: New gave a cache and no goroutine has panicked.
Running == ~err /\ ~panicked

\* ------------------------------------------------------------ the RWMutex

\* A goroutine that is in no call enters a method: its c.lock.Lock() returns
\* once nobody holds the lock, and it goes on to `next`.  (The time a caller
\* spends blocked in Lock is not a state of its own, since until Lock returns
\* the call has touched nothing; except under SpecLive, where a goroutine
\* that has made its call is at "wait" until it has the lock.)
NotIn(p) == pc[p] \in {"idle", "wait"}
\* (LockAnyway is a Lock that does not wait for the lock to be free.)
LockAnyway(p, next) ==
  /\ NotIn(p)
  /\ lockW' = p
  /\ lockR' = lockR
  /\ pc' = [pc EXCEPT ![p] = next]
  /\ pre' = Snapshot
Lock(p, next) ==
  /\ NotIn(p)
  /\ lockW = NoProc /\ lockR = {}
  /\ lockW' = p
  /\ lockR' = lockR
  /\ pc' = [pc EXCEPT ![p] = next]
  /\ pre' = Snapshot

\* The deferred c.lock.Unlock(), and the return to the caller.
\* (UnlockKept is the return without the deferred Unlock.)
UnlockKept(p) ==
  /\ lockW' = lockW
  /\ lockR' = lockR
  /\ pc' = [pc EXCEPT ![p] = "idle"]
  /\ key' = [key EXCEPT ![p] = NoKey]
  /\ val' = [val EXCEPT ![p] = ZeroV]
  /\ el' = [el EXCEPT ![p] = 0]
  /\ vkey' = [vkey EXCEPT ![p] = NoKey]
  /\ ret' = [ret EXCEPT ![p] = NoRet]
  /\ pre' = NoPre
Unlock(p) ==
  /\ lockW' = NoProc
  /\ lockR' = lockR
  /\ pc' = [pc EXCEPT ![p] = "idle"]
  /\ key' = [key EXCEPT ![p] = NoKey]
  /\ val' = [val EXCEPT ![p] = ZeroV]
  /\ el' = [el EXCEPT ![p] = 0]
  /\ vkey' = [vkey EXCEPT ![p] = NoKey]
  /\ ret' = [ret EXCEPT ![p] = NoRet]
  /\ pre' = NoPre

\* -------------------------------------------------------------------- Get

\* Get(k) is entered by p: c.lock.Lock()
GetEnter(p, k) ==
  /\ Running
  /\ Lock(p, "get_lookup")
  /\ key' = [key EXCEPT ![p] = k]
  /\ UNCHANGED <<cacheVars, orderList, m, statVars, panicked, tozero, val, el, vkey,
                 ret, ref, lastHit, lastDel, blank, count, seen>>

GetLock(p) ==
  /\ phase = "free"
  /\ hits < MaxStat /\ misses < MaxStat
  /\ \E k \in Keys : GetEnter(p, k)
  /\ UNCHANGED driverVars

\* element, ok := c.m[key]; the miss return, or hits.Add(1).
\* (GetLookupSwapped is GetLookup adding to the other counter, GetLookupEarly
\* is GetLookup with hits.Add(1) placed before the test for a miss.)
GetLookupEarly(p) ==
  /\ Running /\ pc[p] = "get_lookup"
  /\ hits' = hits + 1
  /\ IF Lookup(m, key[p]) = 0
     THEN /\ misses' = misses + 1
          /\ ret' = [ret EXCEPT ![p] = [NoRet EXCEPT !.value = ZeroV, !.ok = FALSE]]
          /\ el' = el
          /\ pc' = [pc EXCEPT ![p] = "get_unlock"]
     ELSE /\ misses' = misses
          /\ ret' = ret
          /\ el' = [el EXCEPT ![p] = Lookup(m, key[p])]
          /\ pc' = [pc EXCEPT ![p] = "get_move"]
  /\ seen' = Witnessed(hits', misses', evictions, FALSE)
  /\ UNCHANGED <<cacheVars, orderList, m, evictions, lockVars, panicked, tozero, key,
                 val, vkey, histVars, driverVars>>
GetLookupSwapped(p) ==
  /\ Running /\ pc[p] = "get_lookup"
  /\ IF Lookup(m, key[p]) = 0
     THEN /\ hits' = hits + 1
          /\ misses' = misses
          /\ ret' = [ret EXCEPT ![p] = [NoRet EXCEPT !.value = ZeroV, !.ok = FALSE]]
          /\ el' = el
          /\ pc' = [pc EXCEPT ![p] = "get_unlock"]
     ELSE /\ misses' = misses + 1
          /\ hits' = hits
          /\ ret' = ret
          /\ el' = [el EXCEPT ![p] = Lookup(m, key[p])]
          /\ pc' = [pc EXCEPT ![p] = "get_move"]
  /\ seen' = Witnessed(hits', misses', evictions, FALSE)
  /\ UNCHANGED <<cacheVars, orderList, m, evictions, lockVars, panicked, tozero, key,
                 val, vkey, histVars, driverVars>>
GetLookup(p) ==
  /\ Running /\ pc[p] = "get_lookup"
  /\ IF Lookup(m, key[p]) = 0
     THEN /\ misses' = misses + 1
          /\ hits' = hits
          /\ ret' = [ret EXCEPT ![p] = [NoRet EXCEPT !.value = ZeroV, !.ok = FALSE]]
          /\ el' = el
          /\ pc' = [pc EXCEPT ![p] = "get_unlock"]
     ELSE /\ hits' = hits + 1
          /\ misses' = misses
          /\ ret' = ret
          /\ el' = [el EXCEPT ![p] = Lookup(m, key[p])]
          /\ pc' = [pc EXCEPT ![p] = "get_move"]
  /\ seen' = Witnessed(hits', misses', evictions, FALSE)
  /\ UNCHANGED <<cacheVars, orderList, m, evictions, lockVars, panicked, tozero, key,
                 val, vkey, histVars, driverVars>>

\* cvalue, ok := element.Value.(*container[K, V]), with its panic (the
\* deferred Unlock runs and the panic ends the program);
\* c.orderList.MoveToFront(element); return cvalue.value, true
GetMove(p) ==
  /\ Running /\ pc[p] = "get_move"
  /\ IF ~IsContainer(ElemOf(orderList, el[p]))
     THEN /\ panicked' = TRUE
          /\ lockW' = NoProc
          /\ pc' = [pc EXCEPT ![p] = "panic"]
          /\ UNCHANGED <<orderList, ret>>
     ELSE /\ orderList' = MoveToFront(orderList, el[p])
          /\ ret' = [ret EXCEPT ![p] =
                       [NoRet EXCEPT !.value = ElemOf(orderList, el[p]).value,
                                     !.ok = TRUE]]
          /\ pc' = [pc EXCEPT ![p] = "get_unlock"]
          /\ UNCHANGED <<panicked, lockW>>
  /\ UNCHANGED <<cacheVars, m, statVars, lockR, tozero, key, val, el, vkey,
                 ghostVars, driverVars>>

GetUnlock(p) ==
  /\ Running /\ pc[p] = "get_unlock"
  /\ Unlock(p)
  /\ ref' = RefGet(ref, key[p])
  /\ lastHit' = IF ret[p].ok THEN key[p] ELSE NoKey
  /\ lastDel' = NoKey
  /\ blank' = blank
  /\ count' = IF ret[p].ok THEN [count EXCEPT !.hits = @ + 1]
              ELSE [count EXCEPT !.misses = @ + 1]
  /\ UNCHANGED <<cacheVars, orderList, m, statVars, panicked, tozero, seen,
                 driverVars>>

\* -------------------------------------------------------------------- Put

\* Put(k, v) is entered by p: c.lock.Lock()
PutEnter(p, k, v) ==
  /\ Running
  /\ Lock(p, "put_lookup")
  /\ key' = [key EXCEPT ![p] = k]
  /\ val' = [val EXCEPT ![p] = v]
  /\ blank' = FALSE
  /\ UNCHANGED <<cacheVars, orderList, m, statVars, panicked, tozero, el, vkey, ret,
                 ref, lastHit, lastDel, count, seen>>

PutLock(p) ==
  /\ phase = "free"
  /\ evictions < MaxStat
  /\ \E k \in Keys, v \in Values : PutEnter(p, k, v)
  /\ UNCHANGED driverVars

\* val, ok := c.m[key], and the capacity test when the key is absent.
\* (PutLookupAbsent is Put without its test for a key already present.)
PutLookupAbsent(p) ==
  /\ Running /\ pc[p] = "put_lookup"
  /\ el' = el
  /\ pc' = [pc EXCEPT ![p] = IF IsFull(m, capacity) THEN "put_evict" ELSE "put_push"]
  /\ UNCHANGED <<cacheVars, orderList, m, statVars, lockVars, panicked, tozero, key,
                 val, vkey, ret, ghostVars, driverVars>>
PutLookup(p) ==
  /\ Running /\ pc[p] = "put_lookup"
  /\ IF Lookup(m, key[p]) # 0
     THEN /\ el' = [el EXCEPT ![p] = Lookup(m, key[p])]
          /\ pc' = [pc EXCEPT ![p] = "put_update"]
     ELSE /\ el' = el
          /\ pc' = [pc EXCEPT ![p] =
                      IF IsFull(m, capacity) THEN "put_evict" ELSE "put_push"]
  /\ UNCHANGED <<cacheVars, orderList, m, statVars, lockVars, panicked, tozero, key,
                 val, vkey, ret, ghostVars, driverVars>>

\* cVal := val.Value.(*container[K, V]), which panics by itself when the
\* value is of another type; cVal.value = value
PutUpdate(p) ==
  /\ Running /\ pc[p] = "put_update"
  /\ IF ~IsContainer(ElemOf(orderList, el[p]))
     THEN /\ panicked' = TRUE
          /\ lockW' = NoProc
          /\ pc' = [pc EXCEPT ![p] = "panic"]
          /\ orderList' = orderList
     ELSE /\ orderList' = SetValue(orderList, el[p], val[p])
          /\ pc' = [pc EXCEPT ![p] = "put_move"]
          /\ UNCHANGED <<panicked, lockW>>
  /\ UNCHANGED <<cacheVars, m, statVars, lockR, tozero, key, val, el, vkey, ret,
                 ghostVars, driverVars>>

\* c.orderList.MoveToFront(val); return
PutMove(p) ==
  /\ Running /\ pc[p] = "put_move"
  /\ orderList' = MoveToFront(orderList, el[p])
  /\ pc' = [pc EXCEPT ![p] = "put_unlock"]
  /\ UNCHANGED <<cacheVars, m, statVars, lockVars, panicked, tozero, key, val, el,
                 vkey, ret, ghostVars, driverVars>>

\* lastC := c.orderList.Back().Value (a nil dereference on an empty list: the
\* deferred Unlock runs and the panic ends the program);
\* val, ok := lastC.(*container[K, V]), with its panic; evictions.Add(1).
PutEvict(p) ==
  /\ Running /\ pc[p] = "put_evict"
  /\ IF Back(orderList) = NilElem \/ ~IsContainer(Back(orderList))
     THEN /\ panicked' = TRUE
          /\ lockW' = NoProc
          /\ pc' = [pc EXCEPT ![p] = "panic"]
          /\ UNCHANGED <<evictions, vkey, seen>>
     ELSE /\ vkey' = [vkey EXCEPT ![p] = Back(orderList).key]
          /\ evictions' = evictions + 1
          /\ pc' = [pc EXCEPT ![p] = "put_evict_map"]
          /\ seen' = Witnessed(hits, misses, evictions + 1, FALSE)
          /\ UNCHANGED <<panicked, lockW>>
  /\ UNCHANGED <<cacheVars, orderList, m, hits, misses, lockR, tozero, key, val, el,
                 ret, histVars, driverVars>>

\* delete(c.m, val.key)
PutEvictMap(p) ==
  /\ Running /\ pc[p] = "put_evict_map"
  /\ m' = MapDelete(m, vkey[p])
  /\ pc' = [pc EXCEPT ![p] = "put_evict_list"]
  /\ UNCHANGED <<cacheVars, orderList, statVars, lockVars, panicked, tozero, key, val,
                 el, vkey, ret, ghostVars, driverVars>>

\* c.orderList.Remove(c.orderList.Back())
PutEvictList(p) ==
  /\ Running /\ pc[p] = "put_evict_list"
  /\ orderList' = Remove(orderList, Back(orderList).id)
  /\ pc' = [pc EXCEPT ![p] = "put_push"]
  /\ UNCHANGED <<cacheVars, m, statVars, lockVars, panicked, tozero, key, val, el,
                 vkey, ret, ghostVars, driverVars>>

\* c.orderList.PushFront(newC), the right-hand side of line 89
PutPush(p) ==
  /\ Running /\ pc[p] = "put_push"
  /\ orderList' = PushFront(orderList,
                            [id |-> NewElemId(orderList, m), key |-> key[p],
                             value |-> val[p]])
  /\ el' = [el EXCEPT ![p] = NewElemId(orderList, m)]
  /\ pc' = [pc EXCEPT ![p] = "put_set"]
  /\ UNCHANGED <<cacheVars, m, statVars, lockVars, panicked, tozero, key, val, vkey,
                 ret, ghostVars, driverVars>>

\* c.m[key] = (the new element)
PutSet(p) ==
  /\ Running /\ pc[p] = "put_set"
  /\ m' = MapSet(m, key[p], el[p])
  /\ pc' = [pc EXCEPT ![p] = "put_unlock"]
  /\ UNCHANGED <<cacheVars, orderList, statVars, lockVars, panicked, tozero, key, val,
                 el, vkey, ret, ghostVars, driverVars>>

PutUnlock(p) ==
  /\ Running /\ pc[p] = "put_unlock"
  /\ Unlock(p)
  /\ ref' = RefPut(ref, key[p], val[p], capacity)
  /\ lastHit' = NoKey
  /\ lastDel' = NoKey
  /\ blank' = blank
  /\ count' = [count EXCEPT
                 !.evictions = @ + Cardinality((DOMAIN pre.m) \ (DOMAIN m))]
  /\ UNCHANGED <<cacheVars, orderList, m, statVars, panicked, tozero, seen,
                 driverVars>>

\* ----------------------------------------------------------------- Delete

\* Delete(k) is entered by p: c.lock.Lock()
DeleteEnter(p, k) ==
  /\ Running
  /\ Lock(p, "delete_lookup")
  /\ key' = [key EXCEPT ![p] = k]
  /\ UNCHANGED <<cacheVars, orderList, m, statVars, panicked, tozero, val, el, vkey,
                 ret, ref, lastHit, lastDel, blank, count, seen>>

DeleteLock(p) ==
  /\ phase = "free"
  /\ \E k \in Keys : DeleteEnter(p, k)
  /\ UNCHANGED driverVars

\* val, ok := c.m[key]; if !ok return
\* (DeleteLookupUnchecked is Delete without its early return.)
DeleteLookupUnchecked(p) ==
  /\ Running /\ pc[p] = "delete_lookup"
  /\ el' = [el EXCEPT ![p] = Lookup(m, key[p])]
  /\ pc' = [pc EXCEPT ![p] = "delete_map"]
  /\ UNCHANGED <<cacheVars, orderList, m, statVars, lockVars, panicked, tozero, key,
                 val, vkey, ret, ghostVars, driverVars>>
DeleteLookup(p) ==
  /\ Running /\ pc[p] = "delete_lookup"
  /\ el' = [el EXCEPT ![p] = Lookup(m, key[p])]
  /\ pc' = [pc EXCEPT ![p] =
              IF Lookup(m, key[p]) = 0 THEN "delete_unlock" ELSE "delete_map"]
  /\ UNCHANGED <<cacheVars, orderList, m, statVars, lockVars, panicked, tozero, key,
                 val, vkey, ret, ghostVars, driverVars>>

\* delete(c.m, key)
DeleteMap(p) ==
  /\ Running /\ pc[p] = "delete_map"
  /\ m' = MapDelete(m, key[p])
  /\ pc' = [pc EXCEPT ![p] = "delete_list"]
  /\ UNCHANGED <<cacheVars, orderList, statVars, lockVars, panicked, tozero, key, val,
                 el, vkey, ret, ghostVars, driverVars>>

\* c.orderList.Remove(val): Remove reads val.list, a nil dereference when val
\* is nil (the deferred Unlock runs and the panic ends the program).
DeleteList(p) ==
  /\ Running /\ pc[p] = "delete_list"
  /\ IF el[p] = 0
     THEN /\ panicked' = TRUE
          /\ lockW' = NoProc
          /\ pc' = [pc EXCEPT ![p] = "panic"]
          /\ orderList' = orderList
     ELSE /\ orderList' = Remove(orderList, el[p])
          /\ pc' = [pc EXCEPT ![p] = "delete_unlock"]
          /\ UNCHANGED <<panicked, lockW>>
  /\ UNCHANGED <<cacheVars, m, statVars, lockR, tozero, key, val, el, vkey, ret,
                 ghostVars, driverVars>>

DeleteUnlock(p) ==
  /\ Running /\ pc[p] = "delete_unlock"
  /\ Unlock(p)
  /\ ref' = RefDelete(ref, key[p])
  /\ lastHit' = NoKey
  /\ lastDel' = IF key[p] \in DOMAIN pre.m THEN key[p] ELSE NoKey
  /\ blank' = blank
  /\ count' = count
  /\ UNCHANGED <<cacheVars, orderList, m, statVars, panicked, tozero, seen,
                 driverVars>>

\* ------------------------------------------------------------------ Clear

\* Clear() is entered by p: c.lock.Lock()
ClearEnter(p) ==
  /\ Running
  /\ Lock(p, "clear_stats")
  /\ tozero' = StatFields
  /\ UNCHANGED <<cacheVars, orderList, m, statVars, panicked, key, val, el, vkey, ret,
                 ref, lastHit, lastDel, blank, count, seen>>

ClearLock(p) ==
  /\ phase = "free"
  /\ ClearEnter(p)
  /\ UNCHANGED driverVars

\* c.stats = stats{}: a plain store over the three counters, one word at a
\* time in an order the compiler chooses.
ClearStats(p) ==
  /\ Running /\ pc[p] = "clear_stats"
  /\ \E f \in tozero :
       /\ tozero' = tozero \ {f}
       /\ hits' = IF f = "hits" THEN 0 ELSE hits
       /\ misses' = IF f = "misses" THEN 0 ELSE misses
       /\ evictions' = IF f = "evictions" THEN 0 ELSE evictions
       /\ pc' = [pc EXCEPT ![p] = IF tozero = {f} THEN "clear_map" ELSE "clear_stats"]
       /\ seen' = Witnessed(hits', misses', evictions',
                            TornReset(hits', misses', evictions'))
  /\ UNCHANGED <<cacheVars, orderList, m, lockVars, panicked, key, val, el, vkey, ret,
                 histVars, driverVars>>

\* clear(c.m)
ClearMap(p) ==
  /\ Running /\ pc[p] = "clear_map"
  /\ m' = MapClear(m)
  /\ pc' = [pc EXCEPT ![p] = "clear_list"]
  /\ UNCHANGED <<cacheVars, orderList, statVars, lockVars, panicked, tozero, key, val,
                 el, vkey, ret, ghostVars, driverVars>>

\* c.orderList.Init()
ClearList(p) ==
  /\ Running /\ pc[p] = "clear_list"
  /\ orderList' = ListInit(orderList)
  /\ pc' = [pc EXCEPT ![p] = "clear_unlock"]
  /\ UNCHANGED <<cacheVars, m, statVars, lockVars, panicked, tozero, key, val, el,
                 vkey, ret, ghostVars, driverVars>>

ClearUnlock(p) ==
  /\ Running /\ pc[p] = "clear_unlock"
  /\ Unlock(p)
  /\ ref' = RefEmpty
  /\ lastHit' = NoKey
  /\ lastDel' = NoKey
  /\ blank' = TRUE
  /\ count' = NoCount
  /\ UNCHANGED <<cacheVars, orderList, m, statVars, panicked, tozero, seen,
                 driverVars>>

\* -------------------------------------------------------------------- Len

\* c.lock.RLock(): granted whenever no goroutine holds the lock exclusively.
\* (sync.RWMutex also holds a reader back while a writer is waiting; a waiting
\* writer is not a state here, so this allows every order Go allows.)
LenEnter(p) ==
  /\ Running /\ NotIn(p)
  /\ lockW = NoProc
  /\ lockR' = lockR \cup {p}
  /\ pc' = [pc EXCEPT ![p] = "len_read"]
  /\ UNCHANGED <<cacheVars, orderList, m, statVars, lockW, panicked, tozero, key, val,
                 el, vkey, ret, ghostVars>>

LenRLock(p) ==
  /\ phase = "free"
  /\ LenEnter(p)
  /\ UNCHANGED driverVars

\* return len(c.m)
LenRead(p) ==
  /\ Running /\ pc[p] = "len_read"
  /\ ret' = [ret EXCEPT ![p] = [NoRet EXCEPT !.nums = <<Cardinality(DOMAIN m)>>]]
  /\ pc' = [pc EXCEPT ![p] = "len_unlock"]
  /\ UNCHANGED <<cacheVars, orderList, m, statVars, lockVars, panicked, tozero, key,
                 val, el, vkey, ghostVars, driverVars>>

\* the deferred c.lock.RUnlock()
LenRUnlock(p) ==
  /\ Running /\ pc[p] = "len_unlock"
  /\ lockR' = lockR \ {p}
  /\ pc' = [pc EXCEPT ![p] = "idle"]
  /\ ret' = [ret EXCEPT ![p] = NoRet]
  /\ lastHit' = NoKey
  /\ lastDel' = NoKey
  /\ UNCHANGED <<cacheVars, orderList, m, statVars, lockW, panicked, tozero, key, val,
                 el, vkey, ref, pre, blank, count, seen, driverVars>>

\* ------------------------------------------------------------------ Stats
\* Three atomic loads, with no lock held.

\* Stats() is entered by p: c.stats.hits.Load()
StatsEnter(p) ==
  /\ Running /\ NotIn(p)
  /\ ret' = [ret EXCEPT ![p] = [NoRet EXCEPT !.nums = <<hits>>]]
  /\ pc' = [pc EXCEPT ![p] = "stats_misses"]
  /\ seen' = Begun(p)
  /\ UNCHANGED <<cacheVars, orderList, m, statVars, lockVars, panicked, tozero, key,
                 val, el, vkey, histVars>>

StatsHits(p) ==
  /\ phase = "free"
  /\ StatsEnter(p)
  /\ UNCHANGED driverVars

StatsMisses(p) ==
  /\ Running /\ pc[p] = "stats_misses"
  /\ ret' = [ret EXCEPT ![p] = [NoRet EXCEPT !.nums = Append(ret[p].nums, misses)]]
  /\ pc' = [pc EXCEPT ![p] = "stats_evictions"]
  /\ seen' = Loaded(p, misses)
  /\ UNCHANGED <<cacheVars, orderList, m, statVars, lockVars, panicked, tozero, key,
                 val, el, vkey, histVars, driverVars>>

StatsEvictions(p) ==
  /\ Running /\ pc[p] = "stats_evictions"
  /\ ret' = [ret EXCEPT ![p] = [NoRet EXCEPT !.nums = Append(ret[p].nums, evictions)]]
  /\ pc' = [pc EXCEPT ![p] = "stats_return"]
  /\ seen' = Loaded(p, evictions)
  /\ UNCHANGED <<cacheVars, orderList, m, statVars, lockVars, panicked, tozero, key,
                 val, el, vkey, histVars, driverVars>>

StatsReturn(p) ==
  /\ Running /\ pc[p] = "stats_return"
  /\ ret' = [ret EXCEPT ![p] = NoRet]
  /\ pc' = [pc EXCEPT ![p] = "idle"]
  /\ seen' = [seen EXCEPT ![p] = {}]
  /\ UNCHANGED <<cacheVars, orderList, m, statVars, lockVars, panicked, tozero, key,
                 val, el, vkey, histVars, driverVars>>

\* ------------------------------------------------------------ the callers
\* Any goroutine that is in no call may enter any of the six methods, with
\* arguments of its choice: the first step of each method above.

GetStep(p) == GetLock(p) \/ GetLookup(p) \/ GetMove(p) \/ GetUnlock(p)
PutStep(p) ==
  \/ PutLock(p) \/ PutLookup(p) \/ PutUpdate(p) \/ PutMove(p) \/ PutEvict(p)
  \/ PutEvictMap(p) \/ PutEvictList(p) \/ PutPush(p) \/ PutSet(p) \/ PutUnlock(p)
DeleteStep(p) ==
  DeleteLock(p) \/ DeleteLookup(p) \/ DeleteMap(p) \/ DeleteList(p) \/ DeleteUnlock(p)
ClearStep(p) ==
  ClearLock(p) \/ ClearStats(p) \/ ClearMap(p) \/ ClearList(p) \/ ClearUnlock(p)
LenStep(p) == LenRLock(p) \/ LenRead(p) \/ LenRUnlock(p)
StatsStep(p) == StatsHits(p) \/ StatsMisses(p) \/ StatsEvictions(p) \/ StatsReturn(p)

Next ==
  \E p \in Procs :
    \/ GetStep(p) \/ PutStep(p) \/ DeleteStep(p) \/ ClearStep(p)
    \/ LenStep(p) \/ StatsStep(p)

Spec == Init /\ [][Next]_vars

\* --------------------------------------------------- TestCacheConcurrency
\* N goroutines each Put their own key, all at once; when all have returned
\* (wg.Wait), N goroutines each Get one of those keys, all at once; when all
\* have returned, the test reads Stats.  The test has capacity = N = 1000;
\* here the capacity is any up to MaxCapacity and N is any number up to it.

Assignments(ps) ==
  {f \in [ps -> [key : Keys, value : Values, next : {"put"}]] :
     \A p, q \in ps : f[p].key = f[q].key => p = q}

InitFill ==
  /\ capArg \in 1..MaxCapacity
  /\ err = New(capArg).err
  /\ capacity = New(capArg).capacity
  /\ orderList = New(capArg).orderList
  /\ m = New(capArg).m
  /\ hits = New(capArg).hits
  /\ misses = New(capArg).misses
  /\ evictions = New(capArg).evictions
  /\ lockW = NoProc /\ lockR = {}
  /\ panicked = FALSE
  /\ tozero = {}
  /\ pc = [p \in Procs |-> "idle"]
  /\ key = [p \in Procs |-> NoKey]
  /\ val = [p \in Procs |-> ZeroV]
  /\ el = [p \in Procs |-> 0]
  /\ vkey = [p \in Procs |-> NoKey]
  /\ ret = [p \in Procs |-> NoRet]
  /\ ref = RefEmpty
  /\ pre = NoPre
  /\ lastHit = NoKey
  /\ lastDel = NoKey
  /\ blank = TRUE
  /\ count = NoCount
  /\ seen = [p \in Procs |-> {}]
  /\ \E ps \in (SUBSET Procs) \ {{}} :
       /\ Cardinality(ps) <= capArg
       /\ todo \in Assignments(ps)
  /\ phase = "put"

\* wg.Go(func() { cache.Put(key, value) })
FillPut(p) ==
  /\ phase = "put" /\ p \in DOMAIN todo /\ todo[p].next = "put"
  /\ PutEnter(p, todo[p].key, todo[p].value)
  /\ todo' = [todo EXCEPT ![p].next = "get"]
  /\ phase' = phase

\* wg.Wait(): every Put has returned.
FillWaitPuts ==
  /\ phase = "put"
  /\ \A p \in DOMAIN todo : todo[p].next = "get" /\ pc[p] = "idle"
  /\ phase' = "get"
  /\ UNCHANGED <<cacheVars, orderList, m, statVars, lockVars, panicked, tozero, pc,
                 key, val, el, vkey, ret, ghostVars, todo>>

\* wg.Go(func() { val, ok := cache.Get(key) ... })
FillGet(p) ==
  /\ phase = "get" /\ p \in DOMAIN todo /\ todo[p].next = "get"
  /\ GetEnter(p, todo[p].key)
  /\ todo' = [todo EXCEPT ![p].next = "done"]
  /\ phase' = phase

\* wg.Wait(): every Get has returned.
FillWaitGets ==
  /\ phase = "get"
  /\ \A p \in DOMAIN todo : todo[p].next = "done" /\ pc[p] = "idle"
  /\ phase' = "done"
  /\ UNCHANGED <<cacheVars, orderList, m, statVars, lockVars, panicked, tozero, pc,
                 key, val, el, vkey, ret, ghostVars, todo>>

\* hits, misses, evictions := cache.Stats()
FillStats(p) ==
  /\ phase = "done"
  /\ StatsEnter(p)
  /\ phase' = "end"
  /\ todo' = todo

NextFill ==
  \/ FillWaitPuts
  \/ FillWaitGets
  \/ \E p \in Procs :
       \/ FillPut(p) \/ PutLookup(p) \/ PutPush(p) \/ PutSet(p) \/ PutUnlock(p)
       \/ FillGet(p) \/ GetLookup(p) \/ GetMove(p) \/ GetUnlock(p)
       \/ FillStats(p) \/ StatsMisses(p) \/ StatsEvictions(p) \/ StatsReturn(p)

SpecFill == InitFill /\ [][NextFill]_vars

\* --------------------------------------------------- TestStatsConcurrency
\* Some goroutines (the workers) call Put and Get over and over while the
\* others call Stats over and over.  Here a worker calls Put, Get and Clear
\* with any of two keys and one value, the others call Stats and Len, and
\* each goroutine is of one kind or the other, with at least one of each.

WatchKeys == {"a", "b"}
WatchValues == {"1"}

Roles ==
  {f \in [Procs -> [key : {NoKey}, value : {ZeroV}, next : {"work", "stats"}]] :
     \E p, q \in Procs : f[p].next = "work" /\ f[q].next = "stats"}

InitWatch ==
  /\ capArg \in 1..MaxCapacity
  /\ err = New(capArg).err
  /\ capacity = New(capArg).capacity
  /\ orderList = New(capArg).orderList
  /\ m = New(capArg).m
  /\ hits = New(capArg).hits
  /\ misses = New(capArg).misses
  /\ evictions = New(capArg).evictions
  /\ lockW = NoProc /\ lockR = {}
  /\ panicked = FALSE
  /\ tozero = {}
  /\ pc = [p \in Procs |-> "idle"]
  /\ key = [p \in Procs |-> NoKey]
  /\ val = [p \in Procs |-> ZeroV]
  /\ el = [p \in Procs |-> 0]
  /\ vkey = [p \in Procs |-> NoKey]
  /\ ret = [p \in Procs |-> NoRet]
  /\ ref = RefEmpty
  /\ pre = NoPre
  /\ lastHit = NoKey
  /\ lastDel = NoKey
  /\ blank = TRUE
  /\ count = NoCount
  /\ seen = [p \in Procs |-> {}]
  /\ todo \in Roles
  /\ phase = "watch"

\* cache.Put(i, j)
WatchPut(p) ==
  /\ phase = "watch" /\ todo[p].next = "work"
  /\ evictions < MaxStat
  /\ \E k \in WatchKeys, v \in WatchValues : PutEnter(p, k, v)
  /\ UNCHANGED driverVars

\* cache.Get(i)
WatchGet(p) ==
  /\ phase = "watch" /\ todo[p].next = "work"
  /\ hits < MaxStat /\ misses < MaxStat
  /\ \E k \in WatchKeys : GetEnter(p, k)
  /\ UNCHANGED driverVars

\* cache.Clear()
WatchClear(p) ==
  /\ phase = "watch" /\ todo[p].next = "work"
  /\ ClearEnter(p)
  /\ UNCHANGED driverVars

\* _, _, _ = cache.Stats()
WatchStats(p) ==
  /\ phase = "watch" /\ todo[p].next = "stats"
  /\ StatsEnter(p)
  /\ UNCHANGED driverVars

\* cache.Len()
WatchLen(p) ==
  /\ phase = "watch" /\ todo[p].next = "stats"
  /\ LenEnter(p)
  /\ UNCHANGED driverVars

NextWatch ==
  \E p \in Procs :
    \/ WatchPut(p) \/ PutLookup(p) \/ PutUpdate(p) \/ PutMove(p) \/ PutEvict(p)
    \/ PutEvictMap(p) \/ PutEvictList(p) \/ PutPush(p) \/ PutSet(p) \/ PutUnlock(p)
    \/ WatchGet(p) \/ GetLookup(p) \/ GetMove(p) \/ GetUnlock(p)
    \/ WatchClear(p) \/ ClearStats(p) \/ ClearMap(p) \/ ClearList(p) \/ ClearUnlock(p)
    \/ WatchStats(p) \/ StatsMisses(p) \/ StatsEvictions(p) \/ StatsReturn(p)
    \/ WatchLen(p) \/ LenRead(p) \/ LenRUnlock(p)

SpecWatch == InitWatch /\ [][NextWatch]_vars

\* ------------------------------------------------- callers that wait
\* Every goroutine calls any of the six methods, again and again.  A call is
\* made (LiveCall) before the lock is asked for, so that a goroutine blocked
\* in c.lock.Lock() or c.lock.RLock() is in a state of its own, "wait", and
\* todo holds the call it has made.

Methods == {"get", "put", "delete", "clear", "len", "stats"}
NoCall == [key |-> NoKey, value |-> ZeroV, next |-> "none"]

InitLive ==
  /\ capArg \in 1..MaxCapacity
  /\ err = New(capArg).err
  /\ capacity = New(capArg).capacity
  /\ orderList = New(capArg).orderList
  /\ m = New(capArg).m
  /\ hits = New(capArg).hits
  /\ misses = New(capArg).misses
  /\ evictions = New(capArg).evictions
  /\ lockW = NoProc /\ lockR = {}
  /\ panicked = FALSE
  /\ tozero = {}
  /\ pc = [p \in Procs |-> "idle"]
  /\ key = [p \in Procs |-> NoKey]
  /\ val = [p \in Procs |-> ZeroV]
  /\ el = [p \in Procs |-> 0]
  /\ vkey = [p \in Procs |-> NoKey]
  /\ ret = [p \in Procs |-> NoRet]
  /\ ref = RefEmpty
  /\ pre = NoPre
  /\ lastHit = NoKey
  /\ lastDel = NoKey
  /\ blank = TRUE
  /\ count = NoCount
  /\ seen = [p \in Procs |-> {}]
  /\ todo = [p \in Procs |-> NoCall]
  /\ phase = "live"

\* p calls a method.  (Get is called only while hits and misses are below
\* MaxStat and Put only while evictions is, which caps the counters.)
LiveCall(p) ==
  /\ Running /\ phase = "live" /\ pc[p] = "idle"
  /\ \E f \in Methods, k \in WatchKeys, v \in WatchValues :
       /\ f = "get" => (hits < MaxStat /\ misses < MaxStat)
       /\ f = "put" => evictions < MaxStat
       /\ todo' = [todo EXCEPT ![p] =
                     [key |-> IF f \in {"get", "put", "delete"} THEN k ELSE NoKey,
                      value |-> IF f = "put" THEN v ELSE ZeroV,
                      next |-> f]]
  /\ pc' = [pc EXCEPT ![p] = "wait"]
  /\ phase' = phase
  /\ UNCHANGED <<cacheVars, orderList, m, statVars, lockVars, panicked, tozero, key,
                 val, el, vkey, ret, ghostVars>>

Called(p, f) == phase = "live" /\ pc[p] = "wait" /\ todo[p].next = f
Entered(p) == todo' = [todo EXCEPT ![p] = NoCall] /\ phase' = phase

\* The call's c.lock.Lock() or c.lock.RLock() returns; Stats asks for no lock.
LiveGet(p) == Called(p, "get") /\ GetEnter(p, todo[p].key) /\ Entered(p)
LivePut(p) == Called(p, "put") /\ PutEnter(p, todo[p].key, todo[p].value) /\ Entered(p)
LiveDelete(p) == Called(p, "delete") /\ DeleteEnter(p, todo[p].key) /\ Entered(p)
LiveClear(p) == Called(p, "clear") /\ ClearEnter(p) /\ Entered(p)
LiveLen(p) == Called(p, "len") /\ LenEnter(p) /\ Entered(p)
LiveStats(p) == Called(p, "stats") /\ StatsEnter(p) /\ Entered(p)

\* p gets the lock it waits for.
LiveAcquire(p) ==
  LiveGet(p) \/ LivePut(p) \/ LiveDelete(p) \/ LiveClear(p) \/ LiveLen(p)

\* A step p takes inside a call, the return included.
LiveInside(p) ==
  \/ LiveStats(p) \/ StatsMisses(p) \/ StatsEvictions(p) \/ StatsReturn(p)
  \/ GetLookup(p) \/ GetMove(p) \/ GetUnlock(p)
  \/ PutLookup(p) \/ PutUpdate(p) \/ PutMove(p) \/ PutEvict(p) \/ PutEvictMap(p)
  \/ PutEvictList(p) \/ PutPush(p) \/ PutSet(p) \/ PutUnlock(p)
  \/ DeleteLookup(p) \/ DeleteMap(p) \/ DeleteList(p) \/ DeleteUnlock(p)
  \/ ClearStats(p) \/ ClearMap(p) \/ ClearList(p) \/ ClearUnlock(p)
  \/ LenRead(p) \/ LenRUnlock(p)

NextLive == \E p \in Procs : LiveCall(p) \/ LiveAcquire(p) \/ LiveInside(p)

\* The Go scheduler runs every goroutine that can run, so a step inside a
\* call is taken; and a goroutine blocked on the lock gets it: sync.Mutex
\* hands the lock to a waiter that has waited 1ms (starvation mode), and
\* sync.RWMutex admits its blocked readers when the writer unlocks.
FairLive ==
  \A p \in Procs : WF_vars(LiveInside(p)) /\ SF_vars(LiveAcquire(p))

SpecLive == InitLive /\ [][NextLive]_vars /\ FairLive

\* ------------------------------------------------------------ the claims

KeysOf(l) == {l[i].key : i \in 1..Len(l)}
UnlockPcs == {"get_unlock", "put_unlock", "delete_unlock", "clear_unlock"}
\* No call is in the middle of its critical section: the lock is free, held
\* shared, or its holder has only the deferred Unlock left to run.
AtRest == lockW = NoProc \/ pc[lockW] \in UnlockPcs

\* C1: the capacity bound.  In every reachable state of a cache that New
\* returned, the steps inside Put included, the index holds at most
\* `capacity` keys and the ledger at most `capacity` records, and the
\* capacity is at least 1.
CapacityBound ==
  ~err => /\ capacity >= 1
          /\ Cardinality(DOMAIN m) <= capacity
          /\ Len(orderList) <= capacity

\* C1's case: a Put that evicted has pushed its new record on a full ledger.
CapacityBoundWitness ==
  \E p \in Procs :
    /\ pc[p] = "put_set" /\ vkey[p] # NoKey
    /\ Len(orderList) = capacity /\ capacity = 2

\* C2: the index and the ledger are in bijection at the end of every public
\* operation.  Whenever no call is inside its critical section, the keys of
\* the index are the keys of the ledger's records, no key occurs twice in
\* the ledger, the index entry of each key is the pointer of the record
\* holding that key, and the index and the ledger have the same size, which
\* is what Len() is about to return.
Bijection ==
  AtRest =>
    /\ DOMAIN m = KeysOf(orderList)
    /\ \A i, j \in 1..Len(orderList) :
         (orderList[i].key = orderList[j].key \/ orderList[i].id = orderList[j].id)
           => i = j
    /\ \A k \in DOMAIN m : ElemOf(orderList, m[k]).key = k
    /\ Cardinality(DOMAIN m) = Len(orderList)
    /\ \A p \in Procs :
         pc[p] = "len_unlock" => ret[p].nums = <<Len(orderList)>>

\* C2's case: a Len reads a cache of two records that has seen an eviction.
BijectionWitness ==
  /\ evictions = 1 /\ Len(orderList) = 2
  /\ \E p \in Procs : pc[p] = "len_unlock"

\* C3: LRU victim selection against the reference model of last-touch
\* times.  Whenever no call is inside its critical section the resident
\* keys are those of the reference model and the ledger lists them from the
\* latest touch to the oldest; and a Put that evicts removes the key whose
\* last touch (a Put, or a Get that hit) is the oldest, and only that key.
LruVictim ==
  /\ lockW = NoProc =>
       /\ DOMAIN m = DOMAIN ref
       /\ Len(orderList) = Cardinality(DOMAIN ref)
       /\ \A i \in 1..Len(orderList) :
            /\ orderList[i].key \in DOMAIN ref
            /\ ref[orderList[i].key].touch = Len(orderList) + 1 - i
  /\ \A p \in Procs :
       /\ pc[p] \in {"put_evict_map", "put_evict_list"} => vkey[p] = RefOldest(ref)
       /\ (pc[p] = "put_unlock" /\ key[p] \notin DOMAIN ref
             /\ Cardinality(DOMAIN ref) = capacity)
            => /\ vkey[p] = RefOldest(ref)
               /\ DOMAIN m = ((DOMAIN ref) \ {RefOldest(ref)}) \cup {key[p]}

\* C3's case: a Put has evicted right after a Get hit changed the order, so
\* the victim is not the key that was inserted first.
LruVictimWitness ==
  \E p \in Procs :
    /\ pc[p] = "put_unlock" /\ vkey[p] # NoKey
    /\ lastHit \in Keys /\ capacity = 2
    /\ pre.list[1].key = lastHit

\* A Put that has evicted: the record it names, until the Put returns.
Evicting(p) ==
  /\ pc[p] \in {"put_evict_map", "put_evict_list", "put_push", "put_set", "put_unlock"}
  /\ vkey[p] # NoKey

\* The value the index and the ledger hold for key k, in the cache as it is
\* and as it was when the lock was taken.
ValueOf(k) == ElemOf(orderList, m[k]).value
PreValueOf(k) == ElemOf(pre.list, pre.m[k]).value

\* C4 as stated, for every capacity: when the operation before an evicting
\* Put was a Get that hit k, the Put does not evict k, and k is still
\* resident with its value when the Put returns.
GetProtectsAnyCapacity ==
  \A p \in Procs :
    (Evicting(p) /\ lastHit \in Keys) =>
      /\ vkey[p] # lastHit
      /\ pc[p] = "put_unlock" => (lastHit \in DOMAIN m /\ ValueOf(lastHit) = PreValueOf(lastHit))

\* C4, amended: the same for every capacity of at least 2 (at capacity 1 the
\* key that was hit is the only entry, and the Put evicts it).
GetProtects ==
  \A p \in Procs :
    (capacity >= 2 /\ Evicting(p) /\ lastHit \in Keys) =>
      /\ vkey[p] # lastHit
      /\ pc[p] = "put_unlock" => (lastHit \in DOMAIN m /\ ValueOf(lastHit) = PreValueOf(lastHit))

\* C4's case: an evicting Put returns after a Get hit the record that was at
\* the back of the ledger.
GetProtectsWitness ==
  \E p \in Procs :
    /\ pc[p] = "put_unlock" /\ vkey[p] # NoKey /\ capacity >= 2
    /\ lastHit \in Keys /\ lastHit \in DOMAIN m
    /\ pre.list[1].key = lastHit

\* C5: the result of Get.  When a Get is about to return, its result is
\* (v, true) if the reference model (the most recent Put of each key, undone
\* by Delete, Clear and eviction) holds v for its key, and (zero value, false)
\* if the reference model holds nothing for it; and no call has panicked.
GetResult ==
  /\ ~panicked
  /\ \A p \in Procs :
       pc[p] = "get_unlock" =>
         ret[p] = IF key[p] \in DOMAIN ref
                  THEN [value |-> ref[key[p]].value, ok |-> TRUE, nums |-> <<>>]
                  ELSE [value |-> ZeroV, ok |-> FALSE, nums |-> <<>>]

\* C5's case: a Get finds a key, holding a value that is not the zero
\* value, in a cache of capacity 2 that has evicted.
GetResultWitness ==
  \E p \in Procs :
    /\ pc[p] = "get_unlock" /\ ret[p].ok /\ ret[p].value # ZeroV
    /\ evictions = 1 /\ capacity = 2

\* C6: update, not insert.  When a Put of a key that was resident is about to
\* return, the record of the key is the front of the ledger with the new
\* value, the other records follow with their values and in their order, the
\* index is the same, nothing was evicted and no counter has changed.
UpdateNotInsert ==
  \A p \in Procs :
    (pc[p] = "put_unlock" /\ key[p] \in DOMAIN pre.m) =>
      /\ orderList # <<>>
      /\ orderList[1] = [id |-> pre.m[key[p]], key |-> key[p], value |-> val[p]]
      /\ Tail(orderList) = SelectSeq(pre.list, LAMBDA e : e.key # key[p])
      /\ m = pre.m
      /\ Len(orderList) = Len(pre.list)
      /\ vkey[p] = NoKey
      /\ hits = pre.hits /\ misses = pre.misses /\ evictions = pre.evictions

\* C6's case: in a full cache of two, a Put gives the record at the back a
\* new value.
UpdateNotInsertWitness ==
  \E p \in Procs :
    /\ pc[p] = "put_unlock" /\ key[p] \in DOMAIN pre.m
    /\ capacity = 2 /\ Len(pre.list) = 2
    /\ pre.list[2].key = key[p] /\ pre.list[2].value # val[p]

\* C7: Clear.  When Clear is about to return the index and the ledger are
\* empty, the three counters are 0 and the capacity is the one New was given;
\* and from then until a Put begins, every Get misses, Len returns 0 and
\* hits and evictions stay 0.
ClearEmpties ==
  /\ \A p \in Procs :
       pc[p] = "clear_unlock" =>
         /\ m = EmptyMap /\ orderList = <<>>
         /\ hits = 0 /\ misses = 0 /\ evictions = 0
         /\ capacity = capArg
  /\ blank =>
       /\ hits = 0 /\ evictions = 0
       /\ \A p \in Procs :
            /\ pc[p] = "get_unlock" => ret[p] = NoRet
            /\ pc[p] = "len_unlock" => ret[p].nums = <<0>>

\* C7's case: Clear is about to return, having emptied a cache of two records
\* with a hit and an eviction counted.
ClearEmptiesWitness ==
  \E p \in Procs :
    /\ pc[p] = "clear_unlock"
    /\ Len(pre.list) = 2 /\ pre.hits = 1 /\ pre.evictions = 1

\* C8: Delete of a key that is not resident.  It takes the early return, so
\* it never reaches the two removals; when it is about to return, the
\* ledger, the index and the three counters are as they were; and no call
\* has panicked.
DeleteAbsentNoop ==
  /\ ~panicked
  /\ \A p \in Procs :
       /\ pc[p] \in {"delete_map", "delete_list"} => key[p] \in DOMAIN pre.m
       /\ (pc[p] = "delete_unlock" /\ key[p] \notin DOMAIN pre.m) =>
            /\ orderList = pre.list /\ m = pre.m
            /\ hits = pre.hits /\ misses = pre.misses /\ evictions = pre.evictions

\* C8's case: a Delete of an absent key is about to return, in a cache that
\* holds two records and has counted a hit.
DeleteAbsentNoopWitness ==
  \E p \in Procs :
    /\ pc[p] = "delete_unlock" /\ key[p] \notin DOMAIN pre.m
    /\ Len(pre.list) = 2 /\ pre.hits = 1

\* What New returned: an error and no cache exactly for capacity 0, and
\* otherwise an empty cache of the capacity asked for.
NewResult ==
  /\ err <=> capArg = 0
  /\ ~err => /\ capacity = capArg
             /\ m = EmptyMap /\ orderList = <<>>
             /\ hits = 0 /\ misses = 0 /\ evictions = 0

\* C9: construction.  In the state New leaves, there is an error exactly
\* when the capacity asked for is 0, and otherwise an empty cache with that
\* capacity and three counters at 0; in every later state the capacity is
\* still the one asked for, a failed New has left nothing to call, and until
\* a Put begins every Get misses and Len returns 0.
Construction ==
  /\ NewResult
  /\ [](/\ err <=> capArg = 0
        /\ ~err => capacity = capArg
        /\ err => (\A p \in Procs : pc[p] = "idle") /\ m = EmptyMap /\ orderList = <<>>
        /\ blank => \A p \in Procs :
                      /\ pc[p] = "get_unlock" => ret[p] = NoRet
                      /\ pc[p] = "len_unlock" => ret[p].nums = <<0>>)

\* C9's cases: New has failed for capacity 0.
ConstructionWitness == err /\ capArg = 0 /\ capacity = 0

\* C10: concurrent fill, then concurrent read (under SpecFill).  With N
\* goroutines, N at most the capacity, putting pairwise distinct keys in any
\* interleaving and, once all have returned, N goroutines getting those keys
\* in any interleaving: no Put finds its key present, evicts or panics; every
\* Get is about to return the value written for its key, found; and once all
\* have returned hits = N, misses = 0 and evictions = 0, which is also what
\* Stats then returns.
FillThenRead ==
  /\ ~panicked
  /\ \A p \in Procs :
       /\ pc[p] \notin {"put_update", "put_evict"}
       /\ pc[p] = "get_unlock" =>
            ret[p] = [value |-> todo[p].value, ok |-> TRUE, nums |-> <<>>]
       /\ pc[p] = "stats_return" => ret[p].nums = <<Cardinality(DOMAIN todo), 0, 0>>
  /\ phase \in {"done", "end"} =>
       /\ hits = Cardinality(DOMAIN todo)
       /\ misses = 0
       /\ evictions = 0

\* C10's case: two goroutines have filled a cache of capacity 2 and read it
\* back, and Stats is about to return.
FillThenReadWitness ==
  /\ phase = "end" /\ Cardinality(DOMAIN todo) = 2 /\ capacity = 2
  /\ \E p \in Procs : pc[p] = "stats_return"

\* p holds c.lock, exclusively or shared.
Holds(p) == lockW = p \/ p \in lockR
\* Where a goroutine is in no call, or in one that has no read or write of
\* the cache left to make.
OutsidePcs == {"idle", "wait", "panic", "stats_return"}
\* Where Stats is about to load a counter.
StatsLoadPcs == {"stats_misses", "stats_evictions"}
ClearPcs == {"clear_stats", "clear_map", "clear_list"}

\* C11: lock discipline.  A goroutine that is inside a call, with a read or
\* a write of the index, the ledger or a counter still to make, holds the
\* lock; and Stats never stands before a load of a counter while another
\* goroutine holds the lock exclusively.
LockDiscipline ==
  /\ \A p \in Procs : pc[p] \notin OutsidePcs => Holds(p)
  /\ \A p \in Procs : pc[p] \in StatsLoadPcs => lockW \in {NoProc, p}

\* C12: Clear is atomic for its observers.  A Len is never inside its
\* critical section while a Clear is inside its own, so it reads the index
\* as it was before the Clear or as it is after; and when Stats is about to
\* return counters that c.stats did hold at some moment of the call, it held
\* them at a moment outside the middle of a Clear's reset: what Stats returns
\* is what the counters were before a Clear or after it (under SpecWatch).
ClearAtomic ==
  /\ \A p \in Procs :
       pc[p] \in {"len_read", "len_unlock"} =>
         \A q \in Procs : pc[q] \notin ClearPcs \cup {"clear_unlock"}
  /\ \A p \in Procs :
       (phase = "watch" /\ pc[p] = "stats_return" /\ seen[p] # {}) =>
         \E s \in seen[p] : ~s.mid

\* C13: Stats returns a snapshot.  When Stats is about to return, the three
\* counters it has loaded are those c.stats held, together, in one state
\* between the call and now (under SpecWatch).
StatsSnapshot ==
  \A p \in Procs :
    (phase = "watch" /\ pc[p] = "stats_return") => seen[p] # {}

\* Where a goroutine holds the lock exclusively, and where it holds it shared.
ExclusivePcs ==
  {"get_lookup", "get_move", "get_unlock",
   "put_lookup", "put_update", "put_move", "put_evict", "put_evict_map",
   "put_evict_list", "put_push", "put_set", "put_unlock",
   "delete_lookup", "delete_map", "delete_list", "delete_unlock",
   "clear_stats", "clear_map", "clear_list", "clear_unlock"}
SharedPcs == {"len_read", "len_unlock"}

\* The lock is held only by goroutines inside the call that took it: none
\* has returned, or panicked, with the lock still held.
HeldInside ==
  /\ ~panicked
  /\ lockW # NoProc => (pc[lockW] \in ExclusivePcs /\ lockR = {})
  /\ \A p \in lockR : pc[p] \in SharedPcs
  /\ \A p \in Procs :
       /\ pc[p] \in ExclusivePcs => lockW = p
       /\ pc[p] \in SharedPcs => p \in lockR

\* C14: no operation blocks for ever (under SpecLive, with fair scheduling).
\* In every state the lock is held only by goroutines still inside their
\* call, and whenever some goroutine has a call under way some goroutine can
\* take a step of a call: no deadlock.  And every call that is made returns:
\* a goroutine that has called a method, waiting for the lock or inside the
\* call, is later in no call.
NoBlocking ==
  /\ [](HeldInside
        /\ ((\E p \in Procs : pc[p] # "idle")
              => ENABLED (\E p \in Procs : LiveAcquire(p) \/ LiveInside(p))))
  /\ \A p \in Procs : (pc[p] # "idle") ~> (pc[p] = "idle")

\* C14's case: a goroutine waits for the lock while another holds it on the
\* early return of a Delete of an absent key, and one waits while another
\* holds it on the return of a Get that missed.
NoBlockingWitness ==
  \E p, q \in Procs :
    /\ pc[p] = "wait" /\ todo[p].next \in {"get", "put", "delete", "clear", "len"}
    /\ \/ pc[q] = "delete_unlock" /\ key[q] \notin DOMAIN pre.m
       \/ pc[q] = "get_unlock" /\ ~ret[q].ok

\* The step is one taken by a goroutine that stood at one of pcs (every step
\* moves the goroutine that takes it, but for the stores of Clear's reset
\* before the last).
StepFrom(pcs) ==
  \E p \in Procs :
    /\ pc[p] \in pcs
    /\ pc'[p] # pc[p] \/ (pc[p] = "clear_stats" /\ tozero' # tozero)

\* C15: the counters are accurate.  Whenever nobody holds the lock
\* exclusively, hits is the number of Gets that returned found, misses the
\* number of Gets that returned not found and evictions the number of entries
\* that Puts removed, each since the last Clear returned (or since New).  And
\* in every step: hits and misses change only in Get's lookup and in Clear's
\* reset, evictions only in Put's eviction and in Clear's reset (so not in
\* Delete, Len or Stats, nor in Clear's emptying of the index); a counter
\* goes down only in Clear's reset, and goes up by 1 at a time.
CounterAccuracy ==
  /\ [](lockW = NoProc =>
          /\ hits = count.hits
          /\ misses = count.misses
          /\ evictions = count.evictions)
  /\ [][/\ (hits' # hits \/ misses' # misses) => StepFrom({"get_lookup", "clear_stats"})
        /\ evictions' # evictions => StepFrom({"put_evict", "clear_stats"})
        /\ (hits' < hits \/ misses' < misses \/ evictions' < evictions)
             => StepFrom({"clear_stats"})
        /\ hits' <= hits + 1 /\ misses' <= misses + 1 /\ evictions' <= evictions + 1
        /\ hits' + misses' <= hits + misses + 1]_vars

\* C15's case: a Delete of a resident key returns in a cache that has
\* counted a Get and an eviction, with another goroutine inside Stats.
CounterAccuracyWitness ==
  \E p, q \in Procs :
    /\ pc[p] = "delete_unlock" /\ key[p] \in DOMAIN pre.m
    /\ count.hits + count.misses = 1 /\ count.evictions = 1
    /\ hits + misses = 1 /\ evictions = 1
    /\ InStats(q)

\* C16: the frame of a Get that misses.  A Get of a key that is not resident
\* never reaches the move to the front, and when it is about to return its
\* result is (zero value, false), misses is 1 more than it was, and the
\* index, the ledger (records, values and order), hits and evictions are as
\* they were when the call took the lock.
GetMissFrame ==
  \A p \in Procs :
    /\ pc[p] = "get_move" => key[p] \in DOMAIN pre.m
    /\ (pc[p] = "get_unlock" /\ key[p] \notin DOMAIN pre.m) =>
         /\ ret[p] = [value |-> ZeroV, ok |-> FALSE, nums |-> <<>>]
         /\ misses = pre.misses + 1
         /\ hits = pre.hits /\ evictions = pre.evictions
         /\ m = pre.m /\ orderList = pre.list
         /\ Cardinality(DOMAIN m) = Cardinality(DOMAIN pre.m)

\* C16's case: a Get misses in a full cache of two records that has evicted
\* (the key it asks for may be the one evicted).
GetMissFrameWitness ==
  \E p \in Procs :
    /\ pc[p] = "get_unlock" /\ key[p] \notin DOMAIN pre.m
    /\ Len(pre.list) = 2 /\ pre.evictions = 1 /\ misses = 1

\* C17: Put of a key that is not resident.  It reaches the eviction only
\* when the index holds `capacity` keys.  When it is about to return, the
\* front of the ledger is a record with its key and value that is none of
\* the records behind it, and the index maps its key to it.  If the cache held fewer than `capacity` entries,
\* the old records follow, all of them, with their values and in their
\* order, the size is up by 1 and no counter has changed.  If it held
\* `capacity` entries, the old records but the one at the back follow, that
\* one record is gone from the index too, the size is still `capacity`, and
\* evictions is up by 1 with hits and misses unchanged.  And no Put, of a
\* resident key or not, removes more than one entry.
PutAbsent ==
  \A p \in Procs :
    /\ pc[p] \in {"put_evict", "put_evict_map", "put_evict_list"} =>
         (key[p] \notin DOMAIN pre.m /\ Cardinality(DOMAIN pre.m) = capacity)
    /\ pc[p] = "put_unlock" => Cardinality((DOMAIN pre.m) \ (DOMAIN m)) <= 1
    /\ (pc[p] = "put_unlock" /\ key[p] \notin DOMAIN pre.m) =>
         /\ orderList # <<>>
         /\ orderList[1].key = key[p] /\ orderList[1].value = val[p]
         /\ orderList[1].id \notin ElemIds(Tail(orderList))
         /\ key[p] \in DOMAIN m /\ m[key[p]] = orderList[1].id
         /\ hits = pre.hits /\ misses = pre.misses
         /\ IF Len(pre.list) < capacity
            THEN /\ Tail(orderList) = pre.list
                 /\ m = MapSet(pre.m, key[p], orderList[1].id)
                 /\ Len(orderList) = Len(pre.list) + 1
                 /\ Cardinality(DOMAIN m) = Cardinality(DOMAIN pre.m) + 1
                 /\ evictions = pre.evictions
            ELSE /\ Tail(orderList) = SubSeq(pre.list, 1, Len(pre.list) - 1)
                 /\ m = MapSet(MapDelete(pre.m, pre.list[Len(pre.list)].key),
                               key[p], orderList[1].id)
                 /\ Len(orderList) = capacity
                 /\ Cardinality(DOMAIN m) = capacity
                 /\ evictions = pre.evictions + 1

\* C17's case: a Put of a third key is about to return in a cache of
\* capacity 2 that was full and had counted a hit.
PutAbsentWitness ==
  \E p \in Procs :
    /\ pc[p] = "put_unlock" /\ key[p] \notin DOMAIN pre.m
    /\ capacity = 2 /\ Len(pre.list) = 2 /\ pre.hits = 1 /\ evictions = 1

\* C18: Delete of a resident key.  When it is about to return, the key is
\* gone from the index and its record from the ledger, the other records are
\* all there with their values and in their order, the index maps the other
\* keys as before, the size is down by 1 and the three counters are as they
\* were.  A Get of that key that comes next misses; and a Put of a key not
\* resident that comes next never reaches the eviction: it leaves evictions
\* as it was and removes no entry.
DeleteResident ==
  \A p \in Procs :
    /\ (pc[p] = "delete_unlock" /\ key[p] \in DOMAIN pre.m) =>
         /\ key[p] \notin DOMAIN m /\ key[p] \notin KeysOf(orderList)
         /\ m = MapDelete(pre.m, key[p])
         /\ orderList = SelectSeq(pre.list, LAMBDA e : e.key # key[p])
         /\ Len(orderList) = Len(pre.list) - 1
         /\ Cardinality(DOMAIN m) = Cardinality(DOMAIN pre.m) - 1
         /\ hits = pre.hits /\ misses = pre.misses /\ evictions = pre.evictions
    /\ (pc[p] = "get_unlock" /\ lastDel = key[p]) =>
         ret[p] = [value |-> ZeroV, ok |-> FALSE, nums |-> <<>>]
    /\ lastDel \in Keys =>
         /\ pc[p] \notin {"put_evict", "put_evict_map", "put_evict_list"}
         /\ pc[p] = "put_unlock" =>
              (evictions = pre.evictions /\ (DOMAIN pre.m) \subseteq (DOMAIN m))

\* C18's case: in a cache of capacity 2 that was full before a Delete of the
\* key at the front, a Put of a third key is about to return.
DeleteResidentWitness ==
  \E p \in Procs :
    /\ pc[p] = "put_unlock" /\ lastDel \in Keys /\ key[p] \notin DOMAIN pre.m
    /\ key[p] # lastDel
    /\ capacity = 2 /\ Len(pre.list) = 1 /\ Len(orderList) = 2 /\ pre.hits = 1

\* C19: mutations are serialized.  At most one goroutine is inside the
\* critical section of a Get, Put, Delete or Clear, and none is inside Len's
\* while one is (two may be inside Len's together).  So while a Len is inside
\* its critical section the index and the ledger agree, no Put, Delete or
\* Clear being half done, and the size Len is about to return is the number
\* of keys of the index, of records of the ledger and of entries of the
\* reference model.
Serialized ==
  /\ Cardinality({p \in Procs : pc[p] \in ExclusivePcs}) <= 1
  /\ \A p, q \in Procs : ~(pc[p] \in ExclusivePcs /\ pc[q] \in SharedPcs)
  /\ \A p \in Procs :
       /\ pc[p] \in SharedPcs =>
            /\ DOMAIN m = KeysOf(orderList)
            /\ Cardinality(DOMAIN m) = Len(orderList)
            /\ DOMAIN m = DOMAIN ref
       /\ pc[p] = "len_unlock" =>
            ret[p].nums = <<Cardinality(DOMAIN ref)>>

\* C19's case: two goroutines are inside Len together, one about to return,
\* on a cache of two records that has evicted.
SerializedWitness ==
  /\ \A p \in Procs : pc[p] \in SharedPcs
  /\ \E p \in Procs : pc[p] = "len_unlock" /\ ret[p].nums = <<2>>
  /\ evictions = 1

\* C20: Put, then Get.  For every capacity: when Put(k, v) is about to
\* return, the front record of the ledger holds k and v and is the one the
\* index maps k to, and the key the Put evicted, if any, is not k.  And a Get
\* of the key that was at the front of the ledger when the Get took the
\* lock, which is how a Put of that key leaves the cache, is about to return
\* the value of that record, found.
PutThenGet ==
  \A p \in Procs :
    /\ pc[p] = "put_unlock" =>
         /\ orderList # <<>>
         /\ orderList[1].key = key[p] /\ orderList[1].value = val[p]
         /\ key[p] \in DOMAIN m /\ m[key[p]] = orderList[1].id
         /\ ValueOf(key[p]) = val[p]
    /\ Evicting(p) =>
         /\ vkey[p] # key[p]
         /\ pc[p] = "put_unlock" => vkey[p] \notin DOMAIN m
    /\ (pc[p] = "get_unlock" /\ pre.list # <<>> /\ Head(pre.list).key = key[p]) =>
         ret[p] = [value |-> Head(pre.list).value, ok |-> TRUE, nums |-> <<>>]

\* C20's case: at capacity 1, a Get of the key whose Put evicted the other
\* key is about to return.
PutThenGetWitness ==
  \E p \in Procs :
    /\ pc[p] = "get_unlock" /\ capacity = 1 /\ evictions = 1
    /\ pre.list # <<>> /\ Head(pre.list).key = key[p] /\ ret[p].value # ZeroV

\* ------------------------------------------------------------------- C21
\* C21: the panic branches are unreachable.  In every reachable state no
\* goroutine has panicked; whenever Put is at its eviction branch (the index
\* holds capacity keys) the ledger is not empty, its back element holds a
\* key/value record and that record's key is in the index; and whenever Get or
\* Put is about to read the element the index gave it, that element is in the
\* ledger and holds a key/value record.  Clear is among the operations that
\* lead to these states.
PanicFree ==
  /\ ~panicked
  /\ \A p \in Procs : pc[p] # "panic"
  /\ \A p \in Procs : pc[p] = "put_evict" =>
       /\ IsFull(m, capacity)
       /\ orderList # <<>>
       /\ IsContainer(Back(orderList))
       /\ Back(orderList).key \in DOMAIN m
  /\ \A p \in Procs : pc[p] \in {"get_move", "put_update"} =>
       /\ el[p] \in ElemIds(orderList)
       /\ IsContainer(ElemOf(orderList, el[p]))

\* Put is at its eviction branch after a Clear: a Stats call that loaded one
\* hit is still under way, and the hits have been reset since.
PanicFreeWitness ==
  \E p \in Procs, q \in Procs :
    /\ pc[p] = "put_evict"
    /\ pc[q] = "stats_misses" /\ ret[q].nums = <<1>> /\ hits = 0

====
